---- MODULE Spec2Model ----
(***************************************************************************)
(* State machine of the MaxClient core (src/app.py, class App) together    *)
(* with the Dear PyGui glue that drives it (src/ui.py, class AppUI).       *)
(*                                                                         *)
(* Threads: the websocket thread runs App._handle_event; the callback      *)
(* contexts run AppUI.nav_to_chat and AppUI.send; the render loop          *)
(* (AppUI.run) runs the queued next-frame calls and starts one             *)
(* _load_more_thread per trigger.  A thread is interleaved with the others *)
(* at its blocking backend calls; the code between two backend calls is    *)
(* one step.                                                               *)
(*                                                                         *)
(* The backend (MaxBridge.MaxAPI) is the environment: per chat it holds    *)
(* the messages 1..srv[c], ids assigned in increasing order.               *)
(***************************************************************************)
EXTENDS Integers, Sequences, FiniteSets, TLC

\* ---- bounds of the model ------------------------------------------------
MaxMsgs == 3        \* messages the backend holds for chat "1"
MaxMsgsOther == 0   \* messages the backend holds for chat "2"
PageCount == 2      \* messages the backend returns in one history page
MaxLoaders == 2     \* _load_more_thread threads alive at once

\* ---- program constants --------------------------------------------------
NewMessageOpcode == 128
HistoryCount == 50
NoId == 0

NoChat == "None"
Chats == {"1", "2"}
\* the token is None or one the backend issued
NoToken == "None"
Tokens == {"t1", "t2"}

Min(a, b) == IF a < b THEN a ELSE b

\* str() and int() on the decimal ids the model uses
StrOf(n) == CASE n = 0 -> "0" [] n = 1 -> "1" [] n = 2 -> "2" [] OTHER -> "3"
IntOf(s) == CASE s = "0" -> 0 [] s = "1" -> 1 [] s = "2" -> 2 [] OTHER -> 3

\* ---- messages as the backend produces them ------------------------------
\* unix seconds, increasing with the id
Time(i) == 10 * i
Sender(i) == (i % 2) + 1
\* src tells the copies of one message apart: "live" is the copy of a push
\* payload or of a send response, "fetch" the copy of a history page
Message(i, src) == [id |-> i, time |-> Time(i), sender |-> Sender(i), src |-> src]
\* a message object that carries no 'id' key
IdlessMessage == [id |-> NoId, time |-> Time(1), sender |-> Sender(1), src |-> "live"]

Ids(s) == {s[k].id : k \in DOMAIN s}
HasIdless(s) == \E k \in DOMAIN s : s[k].id = NoId

VARIABLES
    chat,              \* state['chat']
    messages,          \* state['messages'][c], <<>> when the key is absent
    profiles,          \* keys of state['profiles']
    ui,                \* App.ui is set
    is_loading_more,   \* AppUI._is_loading_more
    next_frame_calls,  \* AppUI._next_frame_calls is non-empty (1) or empty (0)
    srv,               \* backend: newest message id of each chat
    pushed,            \* backend: newest message id pushed for each chat
    nav,               \* the nav_chat call in progress
    snd,               \* the send call in progress
    loaders,           \* the _load_more_thread threads
    evt,               \* what the _handle_event call that just ended did
    navRet,            \* what the nav_chat call that just ended returned
    sndRet,            \* what the send call that just ended returned
    loadRet,           \* what the load_more_messages call that just ended returned
    token,             \* App.token
    keyring,           \* the password stored under ('maxApp', 'token')
    api,               \* the token App.api was built with
    profile,           \* state['profile']: the token whose user it holds
    chats,             \* keys of state['chats']
    lst,               \* the get_all_chats call in progress
    ath,               \* the check_code closure and its call in progress
    lstRet,            \* what the get_all_chats call that just ended returned
    authRet,           \* what the check_code call that just ended returned
    lastNav            \* the last nav_chat call seen to return True: its chat,
                       \* the page it fetched and the log its merge stored

\* the session: credentials, the backend client and the chat list
session == <<token, keyring, api, profile, chats, lst, ath, lstRet, authRet>>
vars == <<chat, messages, profiles, ui, is_loading_more, next_frame_calls,
          srv, pushed, nav, snd, loaders, evt, navRet, sndRet, loadRet,
          token, keyring, api, profile, chats, lst, ath, lstRet, authRet,
          lastNav>>
rets == <<evt, navRet, sndRet, loadRet>>

\* lookup: the ids the pending get_contact_details call was given; read: the
\* message ids mark_as_read was called with; log: the list line 176 stored
NavIdle == [pc |-> "idle", chat_id |-> NoChat, page |-> <<>>, preChat |-> NoChat,
            dirty |-> FALSE, overlap |-> FALSE, lookup |-> {}, read |-> <<>>,
            log |-> <<>>]
SndIdle == [pc |-> "idle", chat_id |-> NoChat, sent |-> NoId]
LoaderIdle == [pc |-> "idle", chat_id |-> NoChat, alias |-> FALSE, snap |-> <<>>,
               page |-> <<>>, lookup |-> {}]
NoEvent == [opcode |-> NoId, chatId |-> NoId, message |-> <<>>]
EvtNone == [status |-> "none", notified |-> FALSE, dup |-> FALSE, grew |-> FALSE,
            event |-> NoEvent]
NavRetNone == [ret |-> "none", cause |-> "none", chat_id |-> NoChat, page |-> <<>>,
               preChat |-> NoChat, dirty |-> FALSE, overlap |-> FALSE, read |-> <<>>,
               log |-> <<>>]
SndRetNone == [ret |-> "none", chat_id |-> NoChat]
LoadRetNone == [ret |-> "none", chat_id |-> NoChat, value |-> <<>>, page |-> <<>>,
                before |-> <<>>, failed |-> "none"]
LstIdle == [pc |-> "idle", preChats |-> {}, todo |-> {}]
AthNone == [pc |-> "idle", new_token |-> NoToken, preToken |-> NoToken,
            preKeyring |-> NoToken]
LstRetNone == [ret |-> "none", cause |-> "none", preChats |-> {}]
AuthRetNone == [ret |-> "none", preToken |-> NoToken, preKeyring |-> NoToken]
LastNavNone == [chat_id |-> NoChat, page |-> <<>>, log |-> <<>>]

\* the first start: the credential store holds no token
Init ==
    /\ chat = NoChat
    /\ messages = [c \in Chats |-> <<>>]
    /\ profiles = {}
    /\ ui = FALSE
    /\ is_loading_more = FALSE
    /\ next_frame_calls = 0
    /\ srv = [c \in Chats |-> 0]
    /\ pushed = [c \in Chats |-> 0]
    /\ nav = NavIdle
    /\ snd = SndIdle
    /\ loaders = [l \in 1..MaxLoaders |-> LoaderIdle]
    /\ evt = EvtNone
    /\ navRet = NavRetNone
    /\ sndRet = SndRetNone
    /\ loadRet = LoadRetNone
    /\ keyring = NoToken
    /\ token = keyring
    /\ api = token
    /\ profile = NoToken
    /\ chats = {}
    /\ lst = LstIdle
    /\ ath = AthNone
    /\ lstRet = LstRetNone
    /\ authRet = AuthRetNone
    /\ lastNav = LastNavNone

\* ---- the backend (environment) -----------------------------------------
Capacity(c) == IF c = "1" THEN MaxMsgs ELSE MaxMsgsOther
\* the messages lo..hi of a chat as a history page, oldest first
Window(lo, hi) == [k \in 1..(hi - lo + 1) |-> Message(lo + k - 1, "fetch")]
\* the backend returns as many messages as it has, up to count
PageEndingAt(hi, count) == Window(hi - Min(Min(count, PageCount), hi) + 1, hi)
\* get_history(chat_id, count): the most recent page
RecentPages(c) == {PageEndingAt(srv[c], HistoryCount)}
\* get_history(chat_id, count, from_timestamp = t): the page before t. Whether
\* the backend counts a message whose time equals t is the backend's choice.
NewestUpTo(c, t) ==
    LET S == {i \in 1..srv[c] : Time(i) <= t}
    IN IF S = {} THEN 0 ELSE CHOOSE i \in S : \A j \in S : j <= i
NewestBefore(c, t) ==
    LET S == {i \in 1..srv[c] : Time(i) < t}
    IN IF S = {} THEN 0 ELSE CHOOSE i \in S : \A j \in S : j <= i
OlderPages(c, t) ==
    {PageEndingAt(NewestBefore(c, t), HistoryCount),
     PageEndingAt(NewestUpTo(c, t), HistoryCount)}

\* no call has just ended: the threads take their next step
Running == rets = <<EvtNone, NavRetNone, SndRetNone, LoadRetNone>>

\* another user posts into chat c
ServerNewMessage(c) ==
    /\ Running
    /\ UNCHANGED <<session, lastNav>>
    /\ srv[c] < Capacity(c)
    /\ srv' = [srv EXCEPT ![c] = @ + 1]
    /\ UNCHANGED <<chat, messages, profiles, ui, is_loading_more,
                   next_frame_calls, pushed, nav, snd, loaders, rets>>

\* main.py: app_logic.ui = app_ui
AttachUI ==
    /\ Running
    /\ UNCHANGED <<session, lastNav>>
    /\ ~ui
    /\ ui' = TRUE
    /\ UNCHANGED <<chat, messages, profiles, is_loading_more, next_frame_calls,
                   srv, pushed, nav, snd, loaders, rets>>

\* ---- the message lists other threads hold a reference to ----------------
\* load_more_messages keeps `messages`, the list object it read at line 191.
\* While the chat's key still holds that object the thread sees what is
\* appended to it (alias); once the key is assigned a new list, the thread
\* is left with the old object's content (snap).
Detach(ldrs, c) ==
    [l \in DOMAIN ldrs |->
        IF ldrs[l].alias /\ ldrs[l].chat_id = c
        THEN [ldrs[l] EXCEPT !.alias = FALSE, !.snap = messages[c]]
        ELSE ldrs[l]]
LoaderMessages(l) ==
    IF loaders[l].alias THEN messages[loaders[l].chat_id] ELSE loaders[l].snap

\* ---- App._handle_event --------------------------------------------------
\* any(msg['id'] == message_data['id'] for msg in messages), evaluated left
\* to right: "raise" is the KeyError of a message without 'id'
RECURSIVE AnyMatch(_, _, _)
AnyMatch(log, m, k) ==
    IF k > Len(log) THEN "false"
    ELSE IF log[k].id = NoId \/ m.id = NoId THEN "raise"
    ELSE IF log[k].id = m.id THEN "true"
    ELSE AnyMatch(log, m, k + 1)

\* lines 61-64 without the test of the opcode
IsNewMessageAnyOpcode(e) == e.chatId # 0 /\ e.message # <<>>

\* lines 61-64: opcode 128 and both chatId and message present (truthy)
IsNewMessage(e) == e.opcode = NewMessageOpcode /\ e.chatId # 0 /\ e.message # <<>>

\* the event e = [opcode, chatId, message]: chatId 0 and message <<>> stand
\* for an absent (None) field
HandleEvent(e) ==
    IF IsNewMessage(e)
    THEN LET c == StrOf(e.chatId)
             m == e.message[1]
             found == AnyMatch(messages[c], m, 1)
         IN IF found = "raise"
            THEN /\ evt' = [status |-> "raised", notified |-> FALSE,
                            dup |-> FALSE, grew |-> FALSE, event |-> e]
                 /\ UNCHANGED messages
            ELSE /\ messages' = IF found = "false"
                                THEN [messages EXCEPT ![c] = Append(@, m)]
                                ELSE messages
                 \* self.ui.handle_new_message(chat_id=chat_id): the method
                 \* takes (sender, app_data, user_data), the call is a TypeError
                 /\ evt' = [status |-> IF ui THEN "raised" ELSE "returned",
                            notified |-> ui,
                            dup |-> (found = "true"),
                            grew |-> (Len(messages'[c]) > Len(messages[c])),
                            event |-> e]
    ELSE /\ evt' = [status |-> "returned", notified |-> FALSE,
                    dup |-> FALSE, grew |-> FALSE, event |-> e]
         /\ UNCHANGED messages

\* the push channel delivers a message of chat c: the next ones in order, or
\* the last one again
PushNewMessage(c, i) ==
    /\ Running
    /\ UNCHANGED <<session, lastNav>>
    /\ i >= 1 /\ pushed[c] <= i /\ i <= srv[c]
    /\ pushed' = [pushed EXCEPT ![c] = i]
    /\ HandleEvent([opcode |-> NewMessageOpcode, chatId |-> IntOf(c),
                    message |-> <<Message(i, "live")>>])
    /\ UNCHANGED <<chat, profiles, ui, is_loading_more, next_frame_calls,
                   srv, nav, snd, loaders, navRet, sndRet, loadRet>>

\* events of another opcode, without chatId, without message, and "new
\* message" events whose message has no id
MalformedEvents ==
    {[opcode |-> NewMessageOpcode + 1, chatId |-> IntOf(c), message |-> <<IdlessMessage>>] : c \in Chats}
    \cup {[opcode |-> NewMessageOpcode, chatId |-> 0, message |-> <<IdlessMessage>>]}
    \cup {[opcode |-> NewMessageOpcode, chatId |-> IntOf(c), message |-> <<>>] : c \in Chats}
    \cup {[opcode |-> NewMessageOpcode, chatId |-> IntOf(c), message |-> <<IdlessMessage>>] : c \in Chats}

PushMalformed(e) ==
    /\ Running
    /\ UNCHANGED <<session, lastNav>>
    /\ HandleEvent(e)
    /\ UNCHANGED <<chat, profiles, ui, is_loading_more, next_frame_calls,
                   srv, pushed, nav, snd, loaders, navRet, sndRet, loadRet>>

\* ---- App._fetch_and_cache_profiles_for_messages -------------------------
\* lines 89-93 without the test against the cache
AllUserIds(msgs) == {StrOf(msgs[k].sender) : k \in DOMAIN msgs}

\* uncached_user_ids (lines 89-93)
UncachedUserIds(msgs) == {StrOf(msgs[k].sender) : k \in DOMAIN msgs} \ profiles

\* ---- App.nav_chat / AppUI.nav_to_chat -----------------------------------
\* the last copy of id i in s (a dict comprehension keeps the last value)
LastCopy(s, i) ==
    s[CHOOSE k \in DOMAIN s : s[k].id = i /\ \A j \in DOMAIN s : s[j].id = i => j <= k]
RECURSIVE SortedById(_, _)
SortedById(S, copy) ==
    IF S = {} THEN <<>>
    ELSE LET i == CHOOSE x \in S : \A y \in S : x <= y
         IN <<copy[i]>> \o SortedById(S \ {i}, copy)
\* the merge with the stored copy kept on a collision
MergeByIdKeepStored(existing, page) ==
    LET message_dict == [i \in Ids(existing) \cup Ids(page) |->
                            IF i \in Ids(existing) THEN LastCopy(existing, i)
                            ELSE LastCopy(page, i)]
    IN SortedById(DOMAIN message_dict, message_dict)

\* the page put behind the log, without the id -> message map
MergeByExtend(existing, page) == existing \o page

\* lines 173-176: id -> message map of the existing log, overlaid with the
\* page, sorted by id
MergeById(existing, page) ==
    LET message_dict == [i \in Ids(existing) \cup Ids(page) |->
                            IF i \in Ids(page) THEN LastCopy(page, i)
                            ELSE LastCopy(existing, i)]
    IN SortedById(DOMAIN message_dict, message_dict)

\* nav_chat returns; AppUI.nav_to_chat (lines 97-104) then sets the flag and
\* refresh_chat_history(scroll_to_bottom=True) queues scroll_and_unlock_loading
NavReturn(ok, cause, page, dirty, overlap, log) ==
    /\ nav' = NavIdle
    /\ navRet' = [ret |-> IF ok THEN "true" ELSE "false", cause |-> cause,
                  chat_id |-> nav.chat_id, page |-> page, preChat |-> nav.preChat,
                  dirty |-> dirty, overlap |-> overlap, read |-> nav.read,
                  log |-> log]
    /\ IF ok /\ ui
       THEN /\ is_loading_more' = TRUE
            /\ next_frame_calls' = 1
       ELSE UNCHANGED <<is_loading_more, next_frame_calls>>

\* lines 160-166: the pointer is set, then get_history is called
NavStart(c) ==
    /\ Running
    /\ UNCHANGED <<session, lastNav>>
    /\ nav.pc = "idle"
    /\ chat' = c
    /\ nav' = [NavIdle EXCEPT !.pc = "history", !.chat_id = c, !.preChat = chat]
    /\ UNCHANGED <<messages, profiles, ui, is_loading_more, next_frame_calls,
                   srv, pushed, snd, loaders, rets>>

\* get_history raises: lines 185-187
NavHistoryFail ==
    /\ Running
    /\ UNCHANGED <<session, lastNav>>
    /\ nav.pc = "history"
    /\ NavReturn(FALSE, "backend", <<>>, FALSE, FALSE, messages[nav.chat_id])
    /\ UNCHANGED <<chat, messages, profiles, ui, srv, pushed, snd, loaders,
                   evt, sndRet, loadRet>>

\* line 179: last_msg_id = new_messages[-1].get('id')
LastMsgId(new_messages) == new_messages[Len(new_messages)].id

\* lines 172-184, with the profile cache as the prefetch left it
NavMerge(page, profs) ==
    LET c == nav.chat_id
        existing == messages[c]
    IN /\ profiles' = profs
       /\ IF HasIdless(existing)
          THEN \* KeyError at line 173
               /\ NavReturn(FALSE, "KeyError", page, profs # profiles, FALSE, existing)
               /\ UNCHANGED <<messages, loaders>>
          ELSE LET merged == MergeById(existing, page)
                   dirty == profs # profiles \/ merged # existing
                   overlap == /\ Ids(existing) \cap Ids(page) # {}
                              /\ Ids(existing) \ Ids(page) # {}
               IN /\ messages' = [messages EXCEPT ![c] = merged]
                  /\ loaders' = Detach(loaders, c)
                  /\ IF page # <<>> /\ LastMsgId(page) # NoId
                     THEN /\ nav' = [nav EXCEPT !.pc = "markread", !.page = page,
                                                !.dirty = dirty, !.overlap = overlap,
                                                !.lookup = {},
                                                !.read = <<LastMsgId(page)>>,
                                                !.log = merged]
                          /\ UNCHANGED <<is_loading_more, next_frame_calls, navRet>>
                     ELSE NavReturn(TRUE, "none", page, dirty, overlap, merged)

\* lines 172-176 moved in front of the prefetch of line 169
NavHistoryOkMergeFirst ==
    /\ Running
    /\ UNCHANGED <<session, lastNav>>
    /\ nav.pc = "history"
    /\ \E page \in RecentPages(nav.chat_id) :
          IF UncachedUserIds(page) = {}
          THEN NavMerge(page, profiles)
          ELSE /\ messages' = [messages EXCEPT ![nav.chat_id] = MergeById(@, page)]
               /\ loaders' = Detach(loaders, nav.chat_id)
               /\ nav' = [nav EXCEPT !.pc = "profiles", !.page = page,
                                     !.lookup = UncachedUserIds(page)]
               /\ UNCHANGED <<profiles, is_loading_more, next_frame_calls, navRet>>
    /\ UNCHANGED <<chat, ui, srv, pushed, snd, evt, sndRet, loadRet>>

\* get_history returns a page: lines 167-169; without uncached senders the
\* call goes on to the merge
NavHistoryOk ==
    /\ Running
    /\ UNCHANGED <<session, lastNav>>
    /\ nav.pc = "history"
    /\ \E page \in RecentPages(nav.chat_id) :
          IF UncachedUserIds(page) = {}
          THEN NavMerge(page, profiles)
          ELSE /\ nav' = [nav EXCEPT !.pc = "profiles", !.page = page,
                                     !.lookup = UncachedUserIds(page)]
               /\ UNCHANGED <<messages, profiles, is_loading_more,
                              next_frame_calls, loaders, navRet>>
    /\ UNCHANGED <<chat, ui, srv, pushed, snd, evt, sndRet, loadRet>>

\* get_contact_details returns the profiles asked for and they are cached
\* (ok), or it raises (lines 99-110); then the merge
NavProfilesDone(ok) ==
    /\ Running
    /\ UNCHANGED <<session, lastNav>>
    /\ nav.pc = "profiles"
    /\ NavMerge(nav.page, IF ok THEN profiles \cup nav.lookup ELSE profiles)
    /\ UNCHANGED <<chat, ui, srv, pushed, snd, evt, sndRet, loadRet>>

\* mark_as_read returns (line 184) or raises (lines 185-187)
NavMarkReadDone(ok) ==
    /\ Running
    /\ UNCHANGED <<session, lastNav>>
    /\ nav.pc = "markread"
    /\ NavReturn(ok, IF ok THEN "none" ELSE "backend", nav.page, nav.dirty, nav.overlap,
                 nav.log)
    /\ UNCHANGED <<chat, messages, profiles, ui, srv, pushed, snd, loaders,
                   evt, sndRet, loadRet>>

\* ---- App.send / AppUI.send ----------------------------------------------
\* line 145: without an active chat send returns None at once; lines 146-149:
\* otherwise the chat is read once, then send_message is called and the
\* backend stores the message under the next id
SendStart ==
    /\ Running
    /\ UNCHANGED <<session, lastNav>>
    /\ snd.pc = "idle"
    /\ IF chat = NoChat
       THEN /\ sndRet' = [ret |-> "None", chat_id |-> NoChat]
            /\ UNCHANGED <<srv, snd>>
       ELSE /\ srv[chat] < Capacity(chat)
            /\ srv' = [srv EXCEPT ![chat] = @ + 1]
            /\ snd' = [pc |-> "wait", chat_id |-> chat, sent |-> srv[chat] + 1]
            /\ UNCHANGED sndRet
    /\ UNCHANGED <<chat, messages, profiles, ui, is_loading_more,
                   next_frame_calls, pushed, nav, loaders, evt, navRet, loadRet>>

\* line 153 appending to the log of the chat that is active now
SendOkIntoActive ==
    /\ Running
    /\ UNCHANGED <<session, lastNav>>
    /\ snd.pc = "wait"
    /\ messages' = [messages EXCEPT ![chat] = Append(@, Message(snd.sent, "live"))]
    /\ snd' = SndIdle
    /\ sndRet' = [ret |-> "message", chat_id |-> snd.chat_id]
    /\ next_frame_calls' = IF ui THEN 1 ELSE next_frame_calls
    /\ UNCHANGED <<chat, profiles, ui, is_loading_more, srv, pushed, nav,
                   loaders, evt, navRet, loadRet>>

\* lines 150-154: the response carries the message; AppUI.send (lines 91-93)
\* then refreshes the history, which queues scroll_and_unlock_loading
SendOk ==
    /\ Running
    /\ UNCHANGED <<session, lastNav>>
    /\ snd.pc = "wait"
    /\ messages' = [messages EXCEPT ![snd.chat_id] = Append(@, Message(snd.sent, "live"))]
    /\ snd' = SndIdle
    /\ sndRet' = [ret |-> "message", chat_id |-> snd.chat_id]
    /\ next_frame_calls' = IF ui THEN 1 ELSE next_frame_calls
    /\ UNCHANGED <<chat, profiles, ui, is_loading_more, srv, pushed, nav,
                   loaders, evt, navRet, loadRet>>

\* line 155 (the response carries no message) and lines 156-158 (send_message
\* raises)
SendNone(raised) ==
    /\ Running
    /\ UNCHANGED <<session, lastNav>>
    /\ snd.pc = "wait"
    /\ snd' = SndIdle
    /\ sndRet' = [ret |-> "None", chat_id |-> snd.chat_id]
    /\ UNCHANGED <<chat, messages, profiles, ui, is_loading_more,
                   next_frame_calls, srv, pushed, nav, loaders, evt, navRet,
                   loadRet>>

\* ---- AppUI.run, _trigger_load_more, _load_more_thread -------------------
FreeLoaders == {l \in DOMAIN loaders : loaders[l].pc = "idle"}
InFlight(l) == loaders[l].pc # "idle"

\* _load_more_thread after load_more_messages returned value (lines 184-189):
\* the flag is cleared when the value is empty
\* failed names the backend call of this load that raised, if any
LoadReturn(l, c, value, page, before, flag, failed) ==
    /\ loadRet' = [ret |-> "returned", chat_id |-> c, value |-> value,
                   page |-> page, before |-> before, failed |-> failed]
    /\ is_loading_more' = IF value = <<>> THEN FALSE ELSE flag

\* line 192 left out
NothingHeldSkipped(msgs) == FALSE

\* app.py line 192: `if not messages: return []`
NothingHeld(msgs) == msgs = <<>>

\* one frame of the render loop (ui.py lines 42-52): the queued calls run
\* (scroll_and_unlock_loading clears the flag), then, scrolled to the top
\* and with the flag clear, _trigger_load_more sets the flag and starts a
\* thread, which runs load_more_messages up to its get_history call
\* (app.py lines 190-195)
Frame(atTop) ==
    /\ Running
    /\ UNCHANGED <<session, lastNav>>
    /\ ui
    /\ next_frame_calls' = 0
    /\ LET unlocked == IF next_frame_calls > 0 THEN FALSE ELSE is_loading_more
       IN IF atTop /\ ~unlocked
          THEN IF chat = NoChat
               THEN /\ is_loading_more' = FALSE
                    /\ UNCHANGED <<loaders, loadRet>>
               ELSE IF NothingHeld(messages[chat])
               THEN /\ LoadReturn(0, chat, <<>>, <<>>, <<>>, TRUE, "none")
                    /\ UNCHANGED loaders
               ELSE /\ FreeLoaders # {}
                    /\ LET l == CHOOSE x \in FreeLoaders : \A y \in FreeLoaders : x <= y
                       IN loaders' = [loaders EXCEPT ![l] =
                              [LoaderIdle EXCEPT !.pc = "history", !.chat_id = chat,
                                                 !.alias = TRUE]]
                    /\ is_loading_more' = TRUE
                    /\ UNCHANGED loadRet
          ELSE /\ is_loading_more' = unlocked
               /\ UNCHANGED <<loaders, loadRet>>
    /\ UNCHANGED <<chat, messages, profiles, ui, srv, pushed, nav, snd, evt,
                   navRet, sndRet>>

\* the except branch of lines 208-210 resetting the chat's log
LoadHistoryFailClearsLog(l) ==
    /\ Running
    /\ UNCHANGED <<session, lastNav>>
    /\ loaders[l].pc = "history"
    /\ messages' = [messages EXCEPT ![loaders[l].chat_id] = <<>>]
    /\ loaders' = [Detach(loaders, loaders[l].chat_id) EXCEPT ![l] = LoaderIdle]
    /\ LoadReturn(l, loaders[l].chat_id, <<>>, <<>>, LoaderMessages(l), is_loading_more,
                  "history")
    /\ UNCHANGED <<chat, profiles, ui, next_frame_calls, srv, pushed,
                   nav, snd, evt, navRet, sndRet>>

\* get_history raises: lines 208-210
LoadHistoryFail(l) ==
    /\ Running
    /\ UNCHANGED <<session, lastNav>>
    /\ loaders[l].pc = "history"
    /\ loaders' = [loaders EXCEPT ![l] = LoaderIdle]
    /\ LoadReturn(l, loaders[l].chat_id, <<>>, <<>>, LoaderMessages(l), is_loading_more,
                  "history")
    /\ UNCHANGED <<chat, messages, profiles, ui, next_frame_calls, srv, pushed,
                   nav, snd, evt, navRet, sndRet>>

\* line 202 writing the log of the chat that is active now
LoadPrependIntoActive(l, page, profs, failed) ==
    /\ profiles' = profs
    /\ messages' = [messages EXCEPT ![chat] = page \o LoaderMessages(l)]
    /\ loaders' = [Detach(loaders, chat) EXCEPT ![l] = LoaderIdle]
    /\ LoadReturn(l, loaders[l].chat_id, page, page, LoaderMessages(l),
                  is_loading_more, failed)

\* lines 200-204, with the profile cache as the prefetch left it: the page
\* is put in front of the list read at line 191
LoadPrepend(l, page, profs, failed) ==
    LET c == loaders[l].chat_id
    IN /\ profiles' = profs
       /\ messages' = [messages EXCEPT ![c] = page \o LoaderMessages(l)]
       /\ loaders' = [Detach(loaders, c) EXCEPT ![l] = LoaderIdle]
       /\ LoadReturn(l, c, page, page, LoaderMessages(l), is_loading_more, failed)

\* line 198 without the comparison with the anchor
PageIsOlderNoAnchorCheck(older_messages, oldest_message_timestamp) ==
    older_messages # <<>>

\* line 198: the page is non-empty and its oldest message is not at the anchor
PageIsOlder(older_messages, oldest_message_timestamp) ==
    older_messages # <<>> /\ older_messages[1].time # oldest_message_timestamp

\* get_history returns a page: lines 196-199 and 206-207
LoadHistoryOk(l) ==
    /\ Running
    /\ UNCHANGED <<session, lastNav>>
    /\ loaders[l].pc = "history"
    /\ LET oldest_message_timestamp == LoaderMessages(l)[1].time
       IN \E page \in OlderPages(loaders[l].chat_id, oldest_message_timestamp) :
          IF PageIsOlder(page, oldest_message_timestamp)
          THEN IF UncachedUserIds(page) = {}
               THEN LoadPrepend(l, page, profiles, "none")
               ELSE /\ loaders' = [loaders EXCEPT ![l].pc = "profiles",
                                                  ![l].page = page,
                                                  ![l].lookup = UncachedUserIds(page)]
                    /\ UNCHANGED <<messages, profiles, is_loading_more, loadRet>>
          ELSE /\ loaders' = [loaders EXCEPT ![l] = LoaderIdle]
               /\ LoadReturn(l, loaders[l].chat_id, <<>>, page,
                             LoaderMessages(l), is_loading_more, "none")
               /\ UNCHANGED <<messages, profiles>>
    /\ UNCHANGED <<chat, ui, next_frame_calls, srv, pushed, nav, snd, evt,
                   navRet, sndRet>>

\* get_contact_details returns (ok) or raises, then lines 200-204
LoadProfilesDone(l, ok) ==
    /\ Running
    /\ UNCHANGED <<session, lastNav>>
    /\ loaders[l].pc = "profiles"
    /\ LoadPrepend(l, loaders[l].page,
                   IF ok THEN profiles \cup loaders[l].lookup
                   ELSE profiles,
                   IF ok THEN "none" ELSE "contacts")
    /\ UNCHANGED <<chat, ui, next_frame_calls, srv, pushed, nav, snd, evt,
                   navRet, sndRet>>

\* the caller has the outcome of the call that just ended
Returned ==
    /\ ~Running
    /\ UNCHANGED <<session, lastNav>>
    /\ evt' = EvtNone /\ navRet' = NavRetNone
    /\ sndRet' = SndRetNone /\ loadRet' = LoadRetNone
    /\ UNCHANGED <<chat, messages, profiles, ui, is_loading_more,
                   next_frame_calls, srv, pushed, nav, snd, loaders>>

\* Returned, with the caller of nav_chat keeping what a call that returned
\* True fetched and the log its merge stored
ReturnedNoted ==
    /\ ~Running
    /\ UNCHANGED session
    /\ lastNav' = IF navRet.ret = "true"
                  THEN [chat_id |-> navRet.chat_id, page |-> navRet.page,
                        log |-> navRet.log]
                  ELSE lastNav
    /\ evt' = EvtNone /\ navRet' = NavRetNone
    /\ sndRet' = SndRetNone /\ loadRet' = LoadRetNone
    /\ UNCHANGED <<chat, messages, profiles, ui, is_loading_more,
                   next_frame_calls, srv, pushed, nav, snd, loaders>>

\* ---- App.auth / check_code, App._initialize_api --------------------------
core == <<chat, messages, profiles, ui, is_loading_more, next_frame_calls,
          srv, pushed, nav, snd, loaders, evt, navRet, sndRet, loadRet>>
SessionRunning == lstRet = LstRetNone /\ authRet = AuthRetNone

\* auth(phone), lines 116-123 and 142: send_verify_code went through and the
\* closure check_code is handed out
Auth ==
    /\ SessionRunning
    /\ ath.pc = "idle"
    /\ ath' = [AthNone EXCEPT !.pc = "checker"]
    /\ UNCHANGED <<core, lastNav, token, keyring, api, profile, chats, lst, lstRet, authRet>>

CheckCodeReturn(ok) ==
    /\ ath' = [AthNone EXCEPT !.pc = "checker"]
    /\ authRet' = [ret |-> IF ok THEN "true" ELSE "false",
                   preToken |-> ath.preToken, preKeyring |-> ath.preKeyring]

\* check_code(code), lines 125-128: check_verify_code is called
CheckCodeStart ==
    /\ SessionRunning
    /\ ath.pc = "checker"
    /\ ath' = [ath EXCEPT !.pc = "verify", !.preToken = token, !.preKeyring = keyring]
    /\ UNCHANGED <<core, lastNav, token, keyring, api, profile, chats, lst, lstRet, authRet>>

\* check_verify_code raises: lines 139-141
CheckCodeRaise ==
    /\ SessionRunning
    /\ ath.pc = "verify"
    /\ CheckCodeReturn(FALSE)
    /\ UNCHANGED <<core, lastNav, token, keyring, api, profile, chats, lst, lstRet>>

\* check_verify_code returns new_token: None (lines 136-138) or a token, with
\* which keyring.set_password is called (lines 129-130)
CheckCodeResult(new_token) ==
    /\ SessionRunning
    /\ ath.pc = "verify"
    /\ IF new_token = NoToken
       THEN CheckCodeReturn(FALSE)
       ELSE /\ ath' = [ath EXCEPT !.pc = "store", !.new_token = new_token]
            /\ UNCHANGED authRet
    /\ UNCHANGED <<core, lastNav, token, keyring, api, profile, chats, lst, lstRet>>

\* keyring.set_password stores the token, then line 131 sets self.token and
\* _initialize_api is entered (ok); or set_password raises
KeyringSet(ok) ==
    /\ SessionRunning
    /\ ath.pc = "store"
    /\ IF ok
       THEN /\ keyring' = ath.new_token
            /\ token' = ath.new_token
            /\ ath' = [ath EXCEPT !.pc = "init"]
            /\ UNCHANGED authRet
       ELSE /\ CheckCodeReturn(FALSE)
            /\ UNCHANGED <<keyring, token>>
    /\ UNCHANGED <<core, lastNav, api, profile, chats, lst, lstRet>>

\* _initialize_api (lines 44-53) closes the client and builds one with the
\* new token, then lines 133-135 (ok); or close or MaxAPI(...) raises and
\* lines 139-141 return False
InitializeApi(ok) ==
    /\ SessionRunning
    /\ ath.pc = "init"
    /\ IF ok
       THEN /\ api' = token
            /\ profile' = token
       ELSE UNCHANGED <<api, profile>>
    /\ CheckCodeReturn(ok)
    /\ UNCHANGED <<core, lastNav, token, keyring, chats, lst, lstRet>>

\* ---- App.get_all_chats -------------------------------------------------
ChatsReturn(ok, cause) ==
    /\ lst' = LstIdle
    /\ lstRet' = [ret |-> IF ok THEN "chats" ELSE "empty", cause |-> cause,
                  preChats |-> lst.preChats]

\* lines 213-216: api.get_all_chats is called
ChatsStart ==
    /\ SessionRunning
    /\ lst.pc = "idle"
    /\ lst' = [LstIdle EXCEPT !.pc = "list", !.preChats = chats]
    /\ UNCHANGED <<core, lastNav, token, keyring, api, profile, chats, ath, lstRet, authRet>>

\* api.get_all_chats raises: lines 221-223
ChatsListFail ==
    /\ SessionRunning
    /\ lst.pc = "list"
    /\ ChatsReturn(FALSE, "backend")
    /\ UNCHANGED <<core, lastNav, token, keyring, api, profile, chats, ath, authRet>>

\* api.get_all_chats returns the chats of listing: line 217 stores them, then
\* the loop of line 218 subscribes to each
ChatsListOk(listing) ==
    /\ SessionRunning
    /\ lst.pc = "list"
    /\ chats' = listing
    /\ IF listing = {}
       THEN ChatsReturn(TRUE, "none")
       ELSE /\ lst' = [lst EXCEPT !.pc = "subscribe", !.todo = listing]
            /\ UNCHANGED lstRet
    /\ UNCHANGED <<core, lastNav, token, keyring, api, profile, ath, authRet>>

\* subscribe_to_chat for the next chat returns (ok; after the last one,
\* lines 219-220) or raises (lines 221-223)
ChatsSubscribe(ok) ==
    /\ SessionRunning
    /\ lst.pc = "subscribe"
    /\ LET chat_id == CHOOSE c \in lst.todo : \A d \in lst.todo : IntOf(c) <= IntOf(d)
       IN IF ~ok THEN ChatsReturn(FALSE, "backend")
          ELSE IF lst.todo = {chat_id} THEN ChatsReturn(TRUE, "none")
          ELSE /\ lst' = [lst EXCEPT !.todo = @ \ {chat_id}]
               /\ UNCHANGED lstRet
    /\ UNCHANGED <<core, lastNav, token, keyring, api, profile, chats, ath, authRet>>

\* the caller has the outcome of the session call that just ended
SessionReturned ==
    /\ ~SessionRunning
    /\ lstRet' = LstRetNone /\ authRet' = AuthRetNone
    /\ UNCHANGED <<core, lastNav, token, keyring, api, profile, chats, lst, ath>>

\* the environment and every thread
Next ==
    \/ \E c \in Chats : ServerNewMessage(c)
    \/ AttachUI
    \/ \E c \in Chats : \E i \in 1..Capacity(c) : PushNewMessage(c, i)
    \/ \E e \in MalformedEvents : PushMalformed(e)
    \/ \E c \in Chats : NavStart(c)
    \/ NavHistoryFail
    \/ NavHistoryOk
    \/ \E ok \in BOOLEAN : NavProfilesDone(ok)
    \/ \E ok \in BOOLEAN : NavMarkReadDone(ok)
    \/ SendStart
    \/ SendOk
    \/ \E raised \in BOOLEAN : SendNone(raised)
    \/ \E atTop \in BOOLEAN : Frame(atTop)
    \/ \E l \in 1..MaxLoaders : LoadHistoryFail(l)
    \/ \E l \in 1..MaxLoaders : LoadHistoryOk(l)
    \/ \E l \in 1..MaxLoaders, ok \in BOOLEAN : LoadProfilesDone(l, ok)
    \/ Returned
    \/ Auth
    \/ CheckCodeStart
    \/ CheckCodeRaise
    \/ \E new_token \in Tokens \cup {NoToken} : CheckCodeResult(new_token)
    \/ \E ok \in BOOLEAN : KeyringSet(ok)
    \/ \E ok \in BOOLEAN : InitializeApi(ok)
    \/ ChatsStart
    \/ ChatsListFail
    \/ \E listing \in SUBSET Chats : ChatsListOk(listing)
    \/ \E ok \in BOOLEAN : ChatsSubscribe(ok)
    \/ SessionReturned

Spec == Init /\ [][Next]_vars

\* the store under every push event, well-formed or not, navigation and send
NextStore ==
    \/ \E c \in Chats : ServerNewMessage(c)
    \/ AttachUI
    \/ \E c \in Chats : \E i \in 1..Capacity(c) : PushNewMessage(c, i)
    \/ \E e \in MalformedEvents : PushMalformed(e)
    \/ \E c \in Chats : NavStart(c)
    \/ NavHistoryFail
    \/ NavHistoryOk
    \/ \E ok \in BOOLEAN : NavProfilesDone(ok)
    \/ \E ok \in BOOLEAN : NavMarkReadDone(ok)
    \/ SendStart
    \/ SendOk
    \/ \E raised \in BOOLEAN : SendNone(raised)
    \/ Returned

SpecStore == Init /\ [][NextStore]_vars

\* the render loop and its load threads under push events and navigation
NextLoad ==
    \/ \E c \in Chats : ServerNewMessage(c)
    \/ AttachUI
    \/ \E c \in Chats : \E i \in 1..Capacity(c) : PushNewMessage(c, i)
    \/ \E c \in Chats : NavStart(c)
    \/ NavHistoryFail
    \/ NavHistoryOk
    \/ \E ok \in BOOLEAN : NavProfilesDone(ok)
    \/ \E ok \in BOOLEAN : NavMarkReadDone(ok)
    \/ \E atTop \in BOOLEAN : Frame(atTop)
    \/ \E l \in 1..MaxLoaders : LoadHistoryFail(l)
    \/ \E l \in 1..MaxLoaders : LoadHistoryOk(l)
    \/ \E l \in 1..MaxLoaders, ok \in BOOLEAN : LoadProfilesDone(l, ok)
    \/ Returned

SpecLoad == Init /\ [][NextLoad]_vars

\* the fetch paths alone: navigation, the render loop and its load threads,
\* with the backend's history growing but no push delivered
NextFetch ==
    \/ \E c \in Chats : ServerNewMessage(c)
    \/ AttachUI
    \/ \E c \in Chats : NavStart(c)
    \/ NavHistoryFail
    \/ NavHistoryOk
    \/ \E ok \in BOOLEAN : NavProfilesDone(ok)
    \/ \E ok \in BOOLEAN : NavMarkReadDone(ok)
    \/ \E atTop \in BOOLEAN : Frame(atTop)
    \/ \E l \in 1..MaxLoaders : LoadHistoryFail(l)
    \/ \E l \in 1..MaxLoaders : LoadHistoryOk(l)
    \/ \E l \in 1..MaxLoaders, ok \in BOOLEAN : LoadProfilesDone(l, ok)
    \/ Returned

SpecFetch == Init /\ [][NextFetch]_vars

\* navigation under push events, with each successful call noted
NextNav ==
    \/ \E c \in Chats : ServerNewMessage(c)
    \/ AttachUI
    \/ \E c \in Chats : \E i \in 1..Capacity(c) : PushNewMessage(c, i)
    \/ \E c \in Chats : NavStart(c)
    \/ NavHistoryFail
    \/ NavHistoryOk
    \/ \E ok \in BOOLEAN : NavProfilesDone(ok)
    \/ \E ok \in BOOLEAN : NavMarkReadDone(ok)
    \/ ReturnedNoted

SpecNav == Init /\ [][NextNav]_vars

\* authentication and the chat list
NextSession ==
    \/ Auth
    \/ CheckCodeStart
    \/ CheckCodeRaise
    \/ \E new_token \in Tokens \cup {NoToken} : CheckCodeResult(new_token)
    \/ \E ok \in BOOLEAN : KeyringSet(ok)
    \/ \E ok \in BOOLEAN : InitializeApi(ok)
    \/ ChatsStart
    \/ ChatsListFail
    \/ \E listing \in SUBSET Chats : ChatsListOk(listing)
    \/ \E ok \in BOOLEAN : ChatsSubscribe(ok)
    \/ SessionReturned

SpecSession == Init /\ [][NextSession]_vars

\* ==== the claims ==========================================================
Occurrences(log, i) == Cardinality({k \in DOMAIN log : log[k].id = i})

\* C1: no chat's message log ever holds two entries with the same message id.
C1_NoDuplicateIds ==
    \A c \in Chats : \A j, k \in DOMAIN messages[c] :
        j # k => messages[c][j].id # messages[c][k].id

\* C2: every chat's message log is ordered ascending by message id.
C2_AscendingById ==
    \A c \in Chats : \A k \in 1..(Len(messages[c]) - 1) :
        messages[c][k].id <= messages[c][k + 1].id

\* C3: a message id that is in a chat's log stays in it at every later step
\* (no writer replaces the log by a stale copy).
C3_LogOnlyGrows ==
    [][\A c \in Chats : Ids(messages[c]) \subseteq Ids(messages'[c])]_vars

\* C4: a push event whose message id is already in the chat's log leaves the
\* log's length unchanged and issues no onNewMessage notification; the
\* notification is issued only when the message was added.
C4_DuplicatePushIsSilent ==
    /\ evt.dup => ~evt.grew /\ ~evt.notified
    /\ evt.notified => evt.grew

\* C5: when nav_chat returns failure because a backend call failed, the
\* active-chat pointer is the one from before the call and the call has
\* changed neither a message log nor the profile cache.
C5_FailedNavLeavesState ==
    (navRet.ret = "false" /\ navRet.cause = "backend")
        => (chat = navRet.preChat /\ ~navRet.dirty)

\* C6: no two load_more_messages calls for the same chat are in flight at
\* the same time.
C6_OneLoadInFlightPerChat ==
    \A l1, l2 \in DOMAIN loaders :
        (l1 # l2 /\ InFlight(l1) /\ InFlight(l2))
            => loaders[l1].chat_id # loaders[l2].chat_id

\* C7: the in-flight flag is released after every load_more_messages call:
\* when no load is in flight and nothing that clears the flag is pending
\* (no queued next-frame call, no navigation in progress), the flag is clear.
C7_FlagReleased ==
    (/\ Running
     /\ \A l \in DOMAIN loaders : ~InFlight(l)
     /\ next_frame_calls = 0
     /\ nav.pc = "idle")
        => ~is_loading_more

\* C8: _handle_event returns normally for every event: no exception escapes.
C8_HandlerReturns == evt.status # "raised"

\* C9: the merge of nav_chat stores exactly the ids held before united with
\* the ids of the fetched page, and for every id of the page the stored copy
\* is the fetched one.
NavMergedPage == IF nav'.pc = "markread" THEN nav'.page ELSE navRet'.page
C9_NavMergeIsUnion ==
    [][(/\ nav.pc \in {"history", "profiles"}
        /\ (nav'.pc = "markread" \/ navRet'.ret = "true"))
       => LET c == nav.chat_id
              after == messages'[c]
          IN /\ Ids(after) = Ids(messages[c]) \cup Ids(NavMergedPage)
             /\ \A k \in DOMAIN after :
                   after[k].id \in Ids(NavMergedPage)
                       => after[k] = LastCopy(NavMergedPage, after[k].id)]_vars
\* nav_chat returned True after a merge in which the log held an id of the
\* page and an id outside the page
C9_Witness == navRet.ret = "true" /\ navRet.overlap

\* C10: load_more_messages returns exactly the messages of the fetched page
\* whose id was not in the log, and afterwards the log holds each of those
\* ids exactly once.
C10_LoadReturnsAdded ==
    loadRet.ret = "returned" =>
        LET IsNew(m) == m.id \notin Ids(loadRet.before)
        IN /\ loadRet.value = SelectSeq(loadRet.page, IsNew)
           /\ \A k \in DOMAIN loadRet.value :
                 Occurrences(messages[loadRet.chat_id], loadRet.value[k].id) = 1
\* C11: when the page load_more_messages fetched has an oldest message whose
\* time equals the anchor (the time of the oldest message held), the call
\* returns empty and its return step leaves every log unchanged.
C11_AnchorPageIgnored ==
    [][(/\ loadRet'.ret = "returned" /\ loadRet.ret = "none"
        /\ loadRet'.page # <<>>
        /\ loadRet'.page[1].time = loadRet'.before[1].time)
       => (loadRet'.value = <<>> /\ messages' = messages)]_vars
\* a load returned after fetching a page that starts at the anchor
C11_Witness ==
    /\ loadRet.ret = "returned" /\ loadRet.page # <<>>
    /\ loadRet.page[1].time = loadRet.before[1].time
    /\ loadRet.value = <<>>
\* C12: load_more_messages on a chat whose log is empty (or absent) returns
\* empty, performs no backend call (no load thread is left waiting for the
\* backend) and changes no state of the store.
C12_EmptyLogLoadIsNoop ==
    [][\A c \in Chats :
        (/\ messages[c] = <<>>
         /\ \/ loadRet.ret = "none" /\ loadRet'.ret = "returned" /\ loadRet'.chat_id = c
            \/ \E l \in DOMAIN loaders :
                  ~InFlight(l) /\ loaders'[l].pc # "idle" /\ loaders'[l].chat_id = c)
        => (/\ loadRet'.ret = "returned" /\ loadRet'.value = <<>>
            /\ loaders' = loaders
            /\ messages' = messages /\ profiles' = profiles
            /\ chat' = chat /\ srv' = srv)]_vars
\* a load on the active chat returned while that chat's log is empty
C12_Witness ==
    /\ loadRet.ret = "returned" /\ loadRet.before = <<>>
    /\ chat = loadRet.chat_id /\ messages[chat] = <<>>
\* C13: _fetch_and_cache_profiles_for_messages issues at most one batched
\* contact lookup per call: none when every sender of the messages is cached,
\* otherwise exactly one, for exactly the distinct sender ids that are not in
\* the profile cache.
SenderIds(msgs) == {StrOf(msgs[k].sender) : k \in DOMAIN msgs}
C13_OneLookupOfUncached ==
    [][/\ (nav.pc = "history" /\ nav'.pc = "profiles")
           => (nav'.lookup = SenderIds(nav'.page) \ profiles /\ nav'.lookup # {})
       /\ (nav.pc = "history" /\ nav'.pc \notin {"history", "profiles"}
                              /\ navRet'.cause # "backend")
           => SenderIds(NavMergedPage) \subseteq profiles
       /\ nav.pc = "profiles" => (nav' = nav \/ nav'.pc # "profiles")
       /\ \A l \in DOMAIN loaders :
           /\ (loaders[l].pc = "history" /\ loaders'[l].pc = "profiles")
               => /\ loaders'[l].lookup = SenderIds(loaders'[l].page) \ profiles
                  /\ loaders'[l].lookup # {}
           /\ (loaders[l].pc = "history" /\ loaders'[l].pc = "idle"
                                         /\ loadRet'.value # <<>>)
               => SenderIds(loadRet'.page) \subseteq profiles
           /\ loaders[l].pc = "profiles"
               => /\ loaders'[l].pc \in {"profiles", "idle"}
                  /\ loaders'[l].lookup = loaders[l].lookup \/ loaders'[l].pc = "idle"]_vars
\* a lookup is pending for a page of which one sender is cached and another
\* is not
C13_Witness ==
    /\ nav.pc = "profiles" /\ nav.lookup # {}
    /\ SenderIds(nav.page) \cap profiles # {}
    /\ nav.lookup = SenderIds(nav.page) \ profiles
\* C14: for every non-empty page get_history returned during nav_chat,
\* mark_as_read is called exactly once, with the greatest id of the page; for
\* an empty page it is not called.
MaxId(msgs) == CHOOSE i \in Ids(msgs) : \A j \in Ids(msgs) : j <= i
C15_MergeTargetsOwnChat ==
    [][/\ \A l \in DOMAIN loaders :
            (InFlight(l) /\ loaders'[l].pc = "idle")
                => /\ chat' = chat
                   /\ \A c \in Chats \ {loaders[l].chat_id} : messages'[c] = messages[c]
       /\ (nav.pc # "idle" /\ nav' # nav)
                => /\ chat' = chat
                   /\ \A c \in Chats \ {nav.chat_id} : messages'[c] = messages[c]]_vars
\* a load returned the messages it added while another chat is the active one
C15_Witness ==
    /\ loadRet.ret = "returned" /\ loadRet.value # <<>>
    /\ chat # NoChat /\ chat # loadRet.chat_id
    /\ Ids(loadRet.value) \subseteq Ids(messages[loadRet.chat_id])
\* C16: when get_all_chats fails at a backend step (the listing or a
\* subscribe call), it returns an empty result and the chats cache holds the
\* mapping it held before the call.
C16_FailedListKeepsCache ==
    (lstRet.ret = "empty" /\ lstRet.cause = "backend") => chats = lstRet.preChats

\* C17: whenever check_code returns False, no token has been written to the
\* credential store and App.token is the one held before the call.
C17_FailedAuthPersistsNothing ==
    authRet.ret = "false"
        => (keyring = authRet.preKeyring /\ token = authRet.preToken)
\* C18: when a backend error occurs during load_more_messages (get_history or
\* get_contact_details raises), the call returns empty and its return step
\* leaves the chat's log as it was.
C18_BackendErrorLeavesLog ==
    [][(loadRet.ret = "none" /\ loadRet'.ret = "returned" /\ loadRet'.failed # "none")
       => (loadRet'.value = <<>> /\ messages' = messages)]_vars
\* C18 as amended: when get_history raises during load_more_messages, the
\* call returns empty and its return step leaves every log as it was.
C18_HistoryErrorLeavesLog ==
    [][(loadRet.ret = "none" /\ loadRet'.ret = "returned" /\ loadRet'.failed = "history")
       => (loadRet'.value = <<>> /\ messages' = messages /\ profiles' = profiles)]_vars
\* a load whose get_history raised has returned empty and the log is the list
\* the call read
C18_Witness ==
    /\ loadRet.ret = "returned" /\ loadRet.failed = "history"
    /\ loadRet.value = <<>> /\ loadRet.before # <<>>
    /\ messages[loadRet.chat_id] = loadRet.before
\* C19: a "new message" event whose payload lacks chatId or lacks the message
\* object is dropped, and so is an event of another opcode: the handler
\* returns, no log, cache or pointer changes and no notification is sent.
C19_IncompleteEventDropped ==
    [][(/\ evt.status = "none" /\ evt'.status # "none"
        /\ \/ evt'.event.opcode # NewMessageOpcode
           \/ evt'.event.chatId = 0
           \/ evt'.event.message = <<>>)
       => (/\ evt'.status = "returned" /\ ~evt'.notified
           /\ messages' = messages /\ profiles' = profiles /\ chat' = chat)]_vars
\* with the UI attached and a chat open, a "new message" event without
\* chatId or without message has been handled
C19_Witness ==
    /\ evt.status = "returned" /\ evt.event.opcode = NewMessageOpcode
    /\ (evt.event.chatId = 0 \/ evt.event.message = <<>>)
    /\ ui /\ chat # NoChat
\* C20: the profile prefetch precedes the exposure of the merge, in nav_chat
\* and in load_more_messages: the step that leaves the batched lookup for the
\* fetched page pending has put no message into a log, so the page reaches
\* the log only by the step that ends the lookup (returned or failed).
C20_PrefetchBeforeMerge ==
    [][/\ (nav' # nav /\ nav'.pc = "profiles") => messages' = messages
       /\ \A l \in DOMAIN loaders :
            (loaders[l].pc # "profiles" /\ loaders'[l].pc = "profiles")
                => messages' = messages]_vars
\* the lookup for a fetched page is pending, in nav_chat or in a load, and
\* the log does not hold every message of the page
C20_Witness ==
    \/ /\ nav.pc = "profiles"
       /\ Ids(nav.page) \ Ids(messages[nav.chat_id]) # {}
    \/ \E l \in DOMAIN loaders :
          /\ loaders[l].pc = "profiles"
          /\ Ids(loaders[l].page) \ Ids(messages[loaders[l].chat_id]) # {}
\* C21: merging an identical batch twice is idempotent: when nav_chat merges
\* the page that the previous successful nav_chat of the same chat fetched,
\* and the log is still the one that call's merge stored (nothing changed
\* it in between), the log stays exactly that log.
C21_SecondMergeIsNoop ==
    [][(/\ nav.pc \in {"history", "profiles"}
        /\ (nav'.pc = "markread" \/ navRet'.ret = "true")
        /\ lastNav.chat_id = nav.chat_id
        /\ NavMergedPage = lastNav.page
        /\ messages[nav.chat_id] = lastNav.log)
       => messages'[nav.chat_id] = lastNav.log]_vars
\* a second nav_chat of the same chat has returned True after fetching the
\* same non-empty page into the log the first one left, and the log, which
\* also holds ids outside the page, is still that log
C21_Witness ==
    /\ navRet.ret = "true" /\ navRet.chat_id = lastNav.chat_id
    /\ navRet.page = lastNav.page /\ navRet.page # <<>>
    /\ messages[navRet.chat_id] = lastNav.log
    /\ Ids(lastNav.log) \ Ids(navRet.page) # {}
\* C22: send targets the chat that was active when the call began: with no
\* active chat it returns None at once, calls no backend and changes no
\* state; otherwise the sent message is appended to the log of the chat read
\* at the start, and to no other, also when the pointer has moved meanwhile;
\* when send_message fails or answers without a message, no log changes.
C22_SendTargetsStartChat ==
    [][/\ chat = NoChat => snd' = snd
       /\ (snd.pc = "idle" /\ sndRet.ret = "none" /\ sndRet'.ret = "None")
           => /\ chat = NoChat
              /\ snd' = snd /\ srv' = srv /\ messages' = messages
              /\ chat' = chat /\ profiles' = profiles
       /\ (snd.pc = "idle" /\ snd'.pc = "wait") => snd'.chat_id = chat
       /\ (snd.pc = "wait" /\ sndRet'.ret = "message")
           => /\ messages'[snd.chat_id] =
                     Append(messages[snd.chat_id], Message(snd.sent, "live"))
              /\ \A c \in Chats \ {snd.chat_id} : messages'[c] = messages[c]
              /\ chat' = chat
       /\ (snd.pc = "wait" /\ sndRet'.ret = "None") => messages' = messages]_vars
\* send has returned the message it appended to its chat's log while another
\* chat is the active one
C22_Witness ==
    /\ sndRet.ret = "message"
    /\ chat # NoChat /\ chat # sndRet.chat_id
    /\ messages[sndRet.chat_id] # <<>>
====
